---- MODULE Spec2Model ----
(***************************************************************************)
(* A model of the reflors ANSI-aware writers.                              *)
(*                                                                         *)
(* Text is a sequence of characters (Unicode code points); byte buffers    *)
(* are sequences of bytes (0..255).  The conversion between the two is     *)
(* UTF-8, modelled by encode_utf8 / from_utf8.                             *)
(***************************************************************************)
EXTENDS Integers, Sequences, FiniteSets, TLC

(***************************************************************************)
(* Bounds of the model.                                                    *)
(***************************************************************************)
\* length of a run of an ansi::Writer over a growable sink: the number of
\* characters written plus the number of reset_ansi / restore_ansi calls
MaxWork == 5
\* longest string passed to one write_str call
MaxChunk == 2
\* length of a run of an ansi::Writer over a byte slice
MaxSliceWork == 4
\* largest byte slice handed to Writer::from_byte_slice
MaxSliceCap == 3
\* longest byte string handed to a write_bytes / pad_bytes entry point
MaxBytes == 3
\* largest padding width / truncation width
MaxWidth == 4
\* longest text handed to the width scanners and the visible iterator
MaxText == 4
\* largest code point of the contiguous range handed to is_terminator
MaxChar == 255
\* length of a run of a padding::Writer: characters written plus close calls
MaxPadWork == 4

\* longest text handed to the dedent and indent functions
MaxDoc == 5

\* largest number of an IndentOptions
MaxIndent == 2

(***************************************************************************)
(* Characters and bytes.                                                   *)
(***************************************************************************)
MARKER == 27

\* "[0m", the suffix write_str looks for, and the sequence reset_ansi emits
RESET_SUFFIX == <<91, 48, 109>>
RESET_SEQ == <<27, 91, 48, 109>>

\* ESC  [  0  m  H  e-acute (two bytes in UTF-8)
Chars == {27, 91, 48, 109, 72, 233}

Strings(n) == UNION {[1..k -> Chars] : k \in 1..n}

Min(a, b) == IF a < b THEN a ELSE b

\* the value of e, computed once, handed to f
Bind(e, f(_)) == CHOOSE y \in {f(x) : x \in {e}} : TRUE

\* a slip: one range from '@' to 'z', which takes in '[' and its neighbours
is_terminator_wide(ch) == ch >= 64 /\ ch <= 122

is_terminator(ch) ==
    \/ (ch >= 64 /\ ch <= 90)
    \/ (ch >= 97 /\ ch <= 122)

len_utf8(ch) ==
    IF ch < 128 THEN 1
    ELSE IF ch < 2048 THEN 2
    ELSE IF ch < 65536 THEN 3
    ELSE 4

encode_utf8(ch) ==
    IF ch < 128 THEN <<ch>>
    ELSE IF ch < 2048 THEN <<192 + (ch \div 64), 128 + (ch % 64)>>
    ELSE IF ch < 65536
        THEN <<224 + (ch \div 4096), 128 + ((ch \div 64) % 64), 128 + (ch % 64)>>
    ELSE <<240 + (ch \div 262144), 128 + ((ch \div 4096) % 64),
           128 + ((ch \div 64) % 64), 128 + (ch % 64)>>

RECURSIVE as_bytes(_)
as_bytes(s) ==
    IF s = <<>> THEN <<>> ELSE encode_utf8(Head(s)) \o as_bytes(Tail(s))

str_len(s) == Len(as_bytes(s))

ends_with(seq, suffix) ==
    /\ Len(seq) >= Len(suffix)
    /\ SubSeq(seq, Len(seq) - Len(suffix) + 1, Len(seq)) = suffix

(***************************************************************************)
(* The sink: bytes::buf::Writer<B>.  A Vec<u8> or BytesMut sink grows      *)
(* without bound; a &mut [u8] sink has a fixed number of free bytes.       *)
(***************************************************************************)
remaining_fits(w, n) == IF w.bounded THEN Min(w.cap - Len(w.writer), n) ELSE n

\* io::Write::write on the sink: copies what fits, reports how much
io_write(w, src) ==
    Bind(remaining_fits(w, Len(src)), LAMBDA n :
        [w |-> [w EXCEPT !.writer = @ \o SubSeq(src, 1, n)], n |-> n])

\* io::Write::write_all on the sink: what fits is copied, then WriteZero
io_write_all(w, src) ==
    Bind(io_write(w, src), LAMBDA r : [w |-> r.w, ok |-> r.n = Len(src)])

(***************************************************************************)
(* ansi::Writer                                                            *)
(***************************************************************************)
Writer_new(bounded, cap) ==
    [writer |-> <<>>, bounded |-> bounded, cap |-> cap,
     ansi |-> FALSE, ansi_seq |-> <<>>, last_seq |-> <<>>,
     seq_changed |-> FALSE]

write_char(w, ch) == io_write_all(w, encode_utf8(ch))

\* a slip: the pending bytes are compared with the whole reset sequence
is_reset_exact(seq) == seq = RESET_SEQ

is_reset(seq) == ends_with(seq, RESET_SUFFIX)

\* the marker branch of write_str
open_span(w, ch) ==
    [w EXCEPT !.ansi = TRUE, !.seq_changed = TRUE,
              !.ansi_seq = @ \o encode_utf8(ch)]

\* the bookkeeping done when a terminator closes the span
track_span(w, ch) ==
    IF is_reset(w.ansi_seq)
        THEN [w EXCEPT !.last_seq = <<>>, !.seq_changed = FALSE]
    ELSE IF ch = 109
        THEN [w EXCEPT !.last_seq = @ \o w.ansi_seq]
    ELSE w

\* the flush of the pending bytes when a span closes
flush_span(w) == io_write_all(w, w.ansi_seq)

\* a slip: the terminator that closes a span also clears the dirty flag
close_span_clean(w, ch) ==
    Bind(track_span([w EXCEPT !.ansi = FALSE, !.seq_changed = FALSE], ch),
         LAMBDA w2 : flush_span(w2))

\* a terminator read inside a span closes it
close_span(w, ch) ==
    Bind(track_span([w EXCEPT !.ansi = FALSE], ch), LAMBDA w2 : flush_span(w2))

\* a slip: inside a span only the terminator is collected, the characters
\* before it are forwarded
write_step_through(w, ch) ==
    IF ch = MARKER
        THEN [w |-> open_span(w, ch), ok |-> TRUE]
    ELSE IF w.ansi /\ is_terminator(ch)
        THEN Bind([w EXCEPT !.ansi_seq = @ \o encode_utf8(ch)], LAMBDA w1 :
                 close_span(w1, ch))
    ELSE write_char(w, ch)

\* one iteration of the loop of write_str
write_step(w, ch) ==
    IF ch = MARKER
        THEN [w |-> open_span(w, ch), ok |-> TRUE]
    ELSE IF w.ansi
        THEN Bind([w EXCEPT !.ansi_seq = @ \o encode_utf8(ch)], LAMBDA w1 :
                 IF is_terminator(ch)
                     THEN close_span(w1, ch)
                     ELSE [w |-> w1, ok |-> TRUE])
    ELSE write_char(w, ch)

\* a slip: the number of characters instead of the number of bytes
write_str_ret_chars(s) == Len(s)

write_str_ret(s) == str_len(s)

\* at = index of the character whose processing failed, 0 when none did
RECURSIVE write_str_from(_, _, _)
write_str_from(w, s, i) ==
    IF i > Len(s)
        THEN [w |-> w, status |-> "Ok", val |-> write_str_ret(s), at |-> 0]
    ELSE Bind(write_step(w, s[i]), LAMBDA r :
             IF r.ok
                 THEN write_str_from(r.w, s, i + 1)
                 ELSE [w |-> r.w, status |-> "Io", val |-> 0, at |-> i])

\* a slip: every call starts outside an escape span
write_str_fresh(w, s) == write_str_from([w EXCEPT !.ansi = FALSE], s, 1)

write_str(w, s) == write_str_from(w, s, 1)

last_sequence(w) == w.last_seq

\* a slip: the reset also drops the cached style
reset_ansi_forgets(w) ==
    IF ~w.seq_changed
        THEN [w |-> w, status |-> "Ok"]
        ELSE Bind(io_write(w, RESET_SEQ), LAMBDA r :
                 [w |-> [r.w EXCEPT !.last_seq = <<>>], status |-> "Ok"])

reset_ansi(w) ==
    IF ~w.seq_changed
        THEN [w |-> w, status |-> "Ok"]
        ELSE [w |-> io_write(w, RESET_SEQ).w, status |-> "Ok"]

restore_ansi(w) == [w |-> io_write(w, w.last_seq).w, status |-> "Ok"]

(***************************************************************************)
(* std::str::from_utf8: the bytes decode to a text only when they are      *)
(* well-formed UTF-8 (no stray continuation byte, no truncated, overlong   *)
(* or surrogate encoding, nothing above U+10FFFF).                         *)
(***************************************************************************)
IsCont(b) == b >= 128 /\ b <= 191

utf8_char_width(b) ==
    IF b < 128 THEN 1
    ELSE IF b >= 194 /\ b <= 223 THEN 2
    ELSE IF b >= 224 /\ b <= 239 THEN 3
    ELSE IF b >= 240 /\ b <= 244 THEN 4
    ELSE 0

\* the second byte of a sequence has a range that depends on the first
SecondOk(first, b) ==
    IF first = 224 THEN b >= 160 /\ b <= 191
    ELSE IF first = 237 THEN b >= 128 /\ b <= 159
    ELSE IF first = 240 THEN b >= 144 /\ b <= 191
    ELSE IF first = 244 THEN b >= 128 /\ b <= 143
    ELSE IsCont(b)

decode_char(b, i, n) ==
    IF n = 1 THEN b[i]
    ELSE IF n = 2 THEN (b[i] - 192) * 64 + (b[i + 1] - 128)
    ELSE IF n = 3
        THEN (b[i] - 224) * 4096 + (b[i + 1] - 128) * 64 + (b[i + 2] - 128)
    ELSE (b[i] - 240) * 262144 + (b[i + 1] - 128) * 4096
         + (b[i + 2] - 128) * 64 + (b[i + 3] - 128)

RECURSIVE from_utf8_at(_, _, _)
from_utf8_at(b, i, acc) ==
    IF i > Len(b) THEN [ok |-> TRUE, chars |-> acc]
    ELSE Bind(utf8_char_width(b[i]), LAMBDA n :
             IF \/ n = 0
                \/ i + n - 1 > Len(b)
                \/ (n >= 2 /\ ~SecondOk(b[i], b[i + 1]))
                \/ (n >= 3 /\ ~IsCont(b[i + 2]))
                \/ (n >= 4 /\ ~IsCont(b[i + 3]))
                 THEN [ok |-> FALSE, chars |-> <<>>]
                 ELSE Bind(Append(acc, decode_char(b, i, n)), LAMBDA acc2 :
                          from_utf8_at(b, i + n, acc2)))

from_utf8(b) == from_utf8_at(b, 1, <<>>)

\* ansi::Writer::write_bytes
write_bytes(w, b) ==
    Bind(from_utf8(b), LAMBDA d :
        IF d.ok
            THEN Bind(write_str(w, d.chars), LAMBDA r :
                     [w |-> r.w, status |-> r.status, val |-> r.val])
            ELSE [w |-> w, status |-> "Utf8", val |-> 0])

(***************************************************************************)
(* ansi::visible_width                                                     *)
(***************************************************************************)
\* a slip: a column already on a tab stop is left where it is
tab_stop_stay(count) == count + ((8 - (count % 8)) % 8)

\* the column a tab moves to
tab_stop(count) == count + (8 - (count % 8))

\* a slip: a newline leaves the column where it is
newline_column_keep(count) == count

\* '\n' => count = 0
newline_column(count) == 0

RECURSIVE visible_width_from(_, _, _, _)
visible_width_from(s, i, count, in_ansi_seq) ==
    IF i > Len(s) THEN count
    ELSE LET ch == s[i]
         IN IF ch = MARKER THEN visible_width_from(s, i + 1, count, TRUE)
            ELSE IF in_ansi_seq
                THEN visible_width_from(s, i + 1, count, ~is_terminator(ch))
            ELSE IF ch = 9
                THEN Bind(tab_stop(count), LAMBDA next_stop :
                         visible_width_from(s, i + 1, next_stop, FALSE))
            ELSE IF ch = 10
                THEN visible_width_from(s, i + 1, newline_column(count), FALSE)
            ELSE visible_width_from(s, i + 1, count + len_utf8(ch), FALSE)

visible_width(s) == visible_width_from(s, 1, 0, FALSE)

(***************************************************************************)
(* ansi::Buffer: a byte container with UTF-8-checked text views.           *)
(***************************************************************************)
\* Buffer::from(&str)
Buffer_from_str(s) == as_bytes(s)

\* Buffer::from(Vec<u8>)
Buffer_from_vec(b) == b

\* a slip: bytes that do not decode give an empty text instead of an error
to_str_lossy(buf) ==
    Bind(from_utf8(buf), LAMBDA d : [status |-> "Ok", val |-> d.chars])

to_str(buf) ==
    Bind(from_utf8(buf), LAMBDA d :
        IF d.ok
            THEN [status |-> "Ok", val |-> d.chars]
            ELSE [status |-> "Utf8", val |-> <<>>])

\* a slip: every visible character counts one column
visible_len_add_one(ch) == 1

\* a slip: a tab or a newline adds nothing to the count
visible_len_add_skip(ch) == IF ch \in {9, 10} THEN 0 ELSE len_utf8(ch)

\* what one visible character adds to the count
visible_len_add(ch) == len_utf8(ch)

\* a slip: every visible byte counts one column
visible_len_ascii_add_one(ch) == 1

\* what one visible byte, read as a character, adds to the count
visible_len_ascii_add(ch) == len_utf8(ch)

\* the loop of visible_len_ascii, over the bytes; *b as char is the
\* character whose code point is the byte
RECURSIVE visible_len_ascii_from(_, _, _, _)
visible_len_ascii_from(buf, i, count, toggle) ==
    IF i > Len(buf) THEN count
    ELSE LET ch == buf[i]
         IN IF ch = MARKER THEN visible_len_ascii_from(buf, i + 1, count, TRUE)
            ELSE IF toggle
                THEN visible_len_ascii_from(buf, i + 1, count, ~is_terminator(ch))
            ELSE Bind(count + visible_len_ascii_add(ch), LAMBDA c2 :
                     visible_len_ascii_from(buf, i + 1, c2, FALSE))

visible_len_ascii(buf) ==
    [status |-> "Ok", val |-> visible_len_ascii_from(buf, 1, 0, FALSE)]

\* the loop of visible_len_unicode, over the characters of the text
RECURSIVE visible_len_unicode_from(_, _, _, _)
visible_len_unicode_from(s, i, count, toggle) ==
    IF i > Len(s) THEN count
    ELSE LET ch == s[i]
         IN IF ch = MARKER THEN visible_len_unicode_from(s, i + 1, count, TRUE)
            ELSE IF toggle
                THEN visible_len_unicode_from(s, i + 1, count, ~is_terminator(ch))
            ELSE Bind(count + visible_len_add(ch), LAMBDA c2 :
                     visible_len_unicode_from(s, i + 1, c2, FALSE))

visible_len_unicode(buf) ==
    Bind(to_str(buf), LAMBDA string :
        IF string.status # "Ok"
            THEN [status |-> string.status, val |-> 0]
            ELSE [status |-> "Ok",
                  val |-> visible_len_unicode_from(string.val, 1, 0, FALSE)])

visible_len(buf) == visible_len_unicode(buf)

\* Buffer::truncate_visible: the width is computed, then todo!() is reached
truncate_visible(buf, len) ==
    Bind(visible_len(buf), LAMBDA current :
        IF current.status # "Ok"
            THEN [status |-> current.status, val |-> <<>>]
            ELSE [status |-> "Panic", val |-> <<>>])

(***************************************************************************)
(* iter::Viserator: pos is the number of characters taken from chars.      *)
(***************************************************************************)
Viserator_new(input) == [input |-> input, pos |-> 0, in_ansi |-> FALSE]

\* a slip: the terminator that closes a span is yielded
vis_step_leaky(v, ch) ==
    IF ch = MARKER
        THEN [v |-> [v EXCEPT !.in_ansi = TRUE], yield |-> FALSE]
    ELSE IF v.in_ansi /\ ~is_terminator(ch)
        THEN [v |-> v, yield |-> FALSE]
    ELSE [v |-> [v EXCEPT !.in_ansi = FALSE], yield |-> TRUE]

\* a slip: inside a span only the terminator is swallowed
vis_step_params(v, ch) ==
    IF ch = MARKER
        THEN [v |-> [v EXCEPT !.in_ansi = TRUE], yield |-> FALSE]
    ELSE IF v.in_ansi /\ is_terminator(ch)
        THEN [v |-> [v EXCEPT !.in_ansi = FALSE], yield |-> FALSE]
    ELSE [v |-> v, yield |-> TRUE]

\* the body of the loop of next for one character
vis_step(v, ch) ==
    IF ch = MARKER
        THEN [v |-> [v EXCEPT !.in_ansi = TRUE], yield |-> FALSE]
    ELSE IF v.in_ansi
        THEN [v |-> [v EXCEPT !.in_ansi = ~is_terminator(ch)], yield |-> FALSE]
    ELSE [v |-> v, yield |-> TRUE]

RECURSIVE vis_next(_)
vis_next(v) ==
    IF v.pos >= Len(v.input)
        THEN [v |-> v, status |-> "None", val |-> 0]
    ELSE Bind(v.input[v.pos + 1], LAMBDA ch :
         Bind(vis_step([v EXCEPT !.pos = @ + 1], ch), LAMBDA r :
             IF r.yield
                 THEN [v |-> r.v, status |-> "Some", val |-> ch]
                 ELSE vis_next(r.v)))

(***************************************************************************)
(* padding::Writer                                                         *)
(***************************************************************************)
padding_new(padding) ==
    [padding |-> padding, ansi_writer |-> Writer_new(FALSE, 0),
     buf |-> <<>>, cache |-> <<>>, line_len |-> 0, in_ansi |-> FALSE]

Spaces(n) == [k \in 1..n |-> 32]

padding_pad(p) ==
    IF p.padding > 0 /\ p.line_len < p.padding
        THEN Bind(write_str(p.ansi_writer, Spaces(p.padding - p.line_len)),
                  LAMBDA r : [w |-> [p EXCEPT !.ansi_writer = r.w],
                              status |-> r.status])
        ELSE [w |-> p, status |-> "Ok"]

\* the newline branch of write_str: pad, reset the style, restart the line
padding_newline(p) ==
    Bind(padding_pad(p), LAMBDA r1 :
        IF r1.status # "Ok" THEN r1
        ELSE Bind(reset_ansi(r1.w.ansi_writer), LAMBDA r2 :
                 [w |-> [r1.w EXCEPT !.ansi_writer = r2.w, !.line_len = 0],
                  status |-> r2.status]))

\* the part of the loop of write_str that tracks the column
padding_track(p, ch) ==
    IF ch = MARKER
        THEN [w |-> [p EXCEPT !.in_ansi = TRUE], status |-> "Ok"]
    ELSE IF p.in_ansi
        THEN [w |-> [p EXCEPT !.in_ansi = ~is_terminator(ch)], status |-> "Ok"]
    ELSE Bind([p EXCEPT !.line_len = @ + len_utf8(ch)], LAMBDA p1 :
             IF ch = 10 THEN padding_newline(p1)
             ELSE [w |-> p1, status |-> "Ok"])

padding_write_step(p, ch) ==
    Bind(padding_track(p, ch), LAMBDA r1 :
        IF r1.status # "Ok" THEN r1
        ELSE Bind(write_str(r1.w.ansi_writer, <<ch>>), LAMBDA r2 :
                 [w |-> [r1.w EXCEPT !.ansi_writer = r2.w],
                  status |-> r2.status]))

RECURSIVE padding_write_str_from(_, _, _)
padding_write_str_from(p, s, i) ==
    IF i > Len(s) THEN [w |-> p, status |-> "Ok", val |-> 0]
    ELSE Bind(padding_write_step(p, s[i]), LAMBDA r :
             IF r.status = "Ok"
                 THEN padding_write_str_from(r.w, s, i + 1)
                 ELSE [w |-> r.w, status |-> r.status, val |-> 0])

padding_write_str(p, s) == padding_write_str_from(p, s, 1)

\* padding::Writer::write_bytes unwraps the result of the decoding
padding_write_bytes(p, b) ==
    Bind(from_utf8(b), LAMBDA d :
        IF d.ok
            THEN padding_write_str(p, d.chars)
            ELSE [w |-> p, status |-> "Panic", val |-> 0])

\* a slip: flush pads whatever the column counter holds
padding_flush_always(p) ==
    Bind(padding_pad(p), LAMBDA r :
        IF r.status # "Ok" THEN r
        ELSE [w |-> [r.w EXCEPT !.cache = r.w.buf, !.line_len = 0,
                                !.in_ansi = FALSE],
              status |-> "Ok"])

padding_flush(p) ==
    Bind(IF p.line_len # 0 THEN padding_pad(p) ELSE [w |-> p, status |-> "Ok"],
         LAMBDA r :
        IF r.status # "Ok" THEN r
        ELSE [w |-> [r.w EXCEPT !.cache = r.w.buf, !.line_len = 0,
                                !.in_ansi = FALSE],
              status |-> "Ok"])

padding_close(p) == padding_flush(p)

padding_to_vec(p) == p.cache

pad_bytes(b, padding) ==
    Bind(padding_new(padding), LAMBDA p0 :
    Bind(padding_write_bytes(p0, b), LAMBDA r1 :
        IF r1.status # "Ok"
            THEN [w |-> r1.w, status |-> r1.status, val |-> <<>>]
        ELSE Bind(padding_close(r1.w), LAMBDA r2 :
                 IF r2.status # "Ok"
                     THEN [w |-> r2.w, status |-> r2.status, val |-> <<>>]
                     ELSE [w |-> r2.w, status |-> "Ok",
                           val |-> padding_to_vec(r2.w)])))

padding_to_string(p) == to_str(p.cache)

pad_string(string, padding) ==
    Bind(padding_new(padding), LAMBDA p0 :
    Bind(padding_write_str(p0, string), LAMBDA r1 :
        IF r1.status # "Ok"
            THEN [w |-> r1.w, status |-> r1.status, val |-> <<>>]
        ELSE Bind(padding_close(r1.w), LAMBDA r2 :
                 IF r2.status # "Ok"
                     THEN [w |-> r2.w, status |-> r2.status, val |-> <<>>]
                     ELSE Bind(padding_to_string(r2.w), LAMBDA r3 :
                              [w |-> r2.w, status |-> r3.status,
                               val |-> r3.val]))))

(***************************************************************************)
(* truncate::Writer                                                        *)
(***************************************************************************)
DEFAULT_TAIL == <<46, 46, 46>>

truncate_new(width) ==
    [width |-> width, tail |-> DEFAULT_TAIL,
     ansi_writer |-> Writer_new(FALSE, 0), buf |-> <<>>, is_ansi |-> FALSE]

truncate_with_ending(width, tail) ==
    [width |-> width, tail |-> tail,
     ansi_writer |-> Writer_new(FALSE, 0), buf |-> <<>>, is_ansi |-> FALSE]

\* ansi::Buffer::push_str
push_str(buf, s) == buf \o as_bytes(s)

\* ansi::Buffer::push_char: c as u8 keeps the low eight bits of the character
push_char(buf, c) == Append(buf, c % 256)

\* a store through the slice that Buffer::data_mut hands out (also reached
\* by From<&mut Buffer> for &mut [u8]): byte i becomes b
data_mut_store(buf, i, b) == [buf EXCEPT ![i] = b]

\* bytes::Buf::advance: the first cnt bytes are dropped; BytesMut panics
\* when cnt is more than what remains
buf_advance(buf, cnt) ==
    IF cnt <= Len(buf)
        THEN [buf |-> SubSeq(buf, cnt + 1, Len(buf)), status |-> "Ok"]
        ELSE [buf |-> buf, status |-> "Panic"]

\* bytes::BufMut::put_slice, which goes through chunk_mut and advance_mut:
\* the bytes of src are appended as they are
put_slice(buf, src) == buf \o src

truncate_write_str(t, s) ==
    Bind(visible_width(t.tail), LAMBDA tail_width :
        IF t.width < tail_width
            THEN [w |-> [t EXCEPT !.buf = push_str(@, t.tail)],
                  status |-> "Ok", val |-> tail_width]
            ELSE [w |-> t, status |-> "Ok", val |-> 0])

truncate_write_bytes(t, b) ==
    Bind(from_utf8(b), LAMBDA d :
        IF d.ok
            THEN truncate_write_str(t, d.chars)
            ELSE [w |-> t, status |-> "Utf8", val |-> 0])

\* builds the Writer and then reaches todo!(): a panic for every argument
truncate_string(string, width, ending) ==
    Bind(truncate_with_ending(width, ending), LAMBDA writer :
        [w |-> writer, status |-> "Panic", val |-> <<>>])

(***************************************************************************)
(* dedent                                                                  *)
(***************************************************************************)
\* one character of detect_indent's loop; st holds current, min and append
detect_indent_step(st, ch) ==
    IF ch \in {32, 9}
        THEN IF st.append THEN [st EXCEPT !.current = @ + 1] ELSE st
    ELSE IF ch = 10
        THEN [st EXCEPT !.current = 0, !.append = TRUE]
    ELSE IF st.current > 0 /\ (st.min = 0 \/ st.current < st.min)
        THEN [current |-> 0, min |-> st.current, append |-> FALSE]
        ELSE [st EXCEPT !.append = FALSE]

RECURSIVE detect_indent_from(_, _, _)
detect_indent_from(st, s, i) ==
    IF i > Len(s) THEN st.min
    ELSE Bind(detect_indent_step(st, s[i]), LAMBDA next :
             detect_indent_from(next, s, i + 1))

detect_indent(s) ==
    detect_indent_from([current |-> 0, min |-> 0, append |-> TRUE], s, 1)

\* one character of dedent_impl's loop; st holds omitted, omit and buf
dedent_impl_step(st, ch, indent) ==
    IF ch \in {32, 9}
        THEN IF st.omit
                 THEN IF st.omitted < indent
                          THEN [st EXCEPT !.omitted = @ + 1]
                          ELSE [st EXCEPT !.omit = FALSE, !.buf = Append(@, ch)]
                 ELSE [st EXCEPT !.buf = Append(@, ch)]
    ELSE IF ch = 10
        THEN [omitted |-> 0, omit |-> TRUE, buf |-> Append(st.buf, ch)]
    ELSE [st EXCEPT !.buf = Append(@, ch)]

RECURSIVE dedent_impl_from(_, _, _, _)
dedent_impl_from(st, s, i, indent) ==
    IF i > Len(s) THEN [status |-> "Ok", val |-> st.buf]
    ELSE Bind(dedent_impl_step(st, s[i], indent), LAMBDA next :
             dedent_impl_from(next, s, i + 1, indent))

dedent_impl(s, indent) ==
    dedent_impl_from([omitted |-> 0, omit |-> TRUE, buf |-> <<>>], s, 1, indent)

dedent_str(s) ==
    Bind(detect_indent(s), LAMBDA indent :
        IF indent = 0 THEN [status |-> "Ok", val |-> s]
        ELSE dedent_impl(s, indent))

dedent_string(s) ==
    Bind(detect_indent(s), LAMBDA indent :
        IF indent = 0 THEN [status |-> "Ok", val |-> s]
        ELSE dedent_impl(s, indent))

\* the String after the call, and the status
dedent_in_place(s) ==
    Bind(detect_indent(s), LAMBDA indent :
        IF indent = 0 THEN [text |-> s, status |-> "Ok"]
        ELSE Bind(dedent_impl(s, indent), LAMBDA r :
                 [text |-> r.val, status |-> r.status]))

(***************************************************************************)
(* indent                                                                  *)
(***************************************************************************)
IndentStyle_as_str(style) == IF style = "Spaces" THEN <<32>> ELSE <<9>>

IndentOptions_spaces(number) == [style |-> "Spaces", number |-> number]

IndentOptions_tabs(number) == [style |-> "Tabs", number |-> number]

\* IndentStyle::default is Spaces, for which the number is 4
IndentOptions_default == IndentOptions_spaces(4)

\* str::repeat
RECURSIVE repeat(_, _)
repeat(s, n) == IF n = 0 THEN <<>> ELSE s \o repeat(s, n - 1)

make_indent(o) == repeat(IndentStyle_as_str(o.style), o.number)

\* str::starts_with
starts_with(s, prefix) ==
    Len(s) >= Len(prefix) /\ SubSeq(s, 1, Len(prefix)) = prefix

indent_line(o, line) ==
    Bind(make_indent(o), LAMBDA indent :
        IF starts_with(line, indent) THEN line ELSE indent \o line)

indent_line_unchecked(o, line) == make_indent(o) \o line

\* a line of str::lines: the piece without its "\n" and, where the piece
\* ended with "\n", without the "\r" before it
strip_line_ending(piece) ==
    IF piece # <<>> /\ piece[Len(piece)] = 10
        THEN Bind(SubSeq(piece, 1, Len(piece) - 1), LAMBDA line :
                 IF line # <<>> /\ line[Len(line)] = 13
                     THEN SubSeq(line, 1, Len(line) - 1)
                     ELSE line)
        ELSE piece

\* str::lines: the pieces that end after each "\n", and what follows the
\* last "\n" when that is not empty
RECURSIVE lines_from(_, _, _, _)
lines_from(s, i, start, acc) ==
    IF i > Len(s)
        THEN IF start > Len(s) THEN acc
             ELSE Append(acc, strip_line_ending(SubSeq(s, start, Len(s))))
    ELSE IF s[i] = 10
        THEN Bind(Append(acc, strip_line_ending(SubSeq(s, start, i))),
                  LAMBDA next : lines_from(s, i + 1, i + 1, next))
        ELSE lines_from(s, i + 1, start, acc)

lines(s) == lines_from(s, 1, 1, <<>>)

\* the lines, each indented and followed by "\n", collected into one String
RECURSIVE indent_collect(_, _, _, _, _)
indent_collect(ls, i, o, checked, output) ==
    IF i > Len(ls) THEN output
    ELSE Bind(output
              \o (IF checked THEN indent_line(o, ls[i])
                  ELSE indent_line_unchecked(o, ls[i]))
              \o <<10>>,
              LAMBDA next : indent_collect(ls, i + 1, o, checked, next))

\* output[..output.len() - 1] panics when output is empty
indent_str(s, o, checked) ==
    Bind(indent_collect(lines(s), 1, o, checked, <<>>), LAMBDA output :
        IF Len(as_bytes(output)) = 0
            THEN [status |-> "Panic", val |-> <<>>]
            ELSE [status |-> "Ok",
                  val |-> SubSeq(output, 1, Len(output) - 1)])

RECURSIVE indent_str_v2_from(_, _, _, _)
indent_str_v2_from(s, i, indent, output) ==
    IF i > Len(s) THEN output
    ELSE Bind(IF s[i] = 10 THEN Append(output, s[i]) \o indent
              ELSE Append(output, s[i]),
              LAMBDA next : indent_str_v2_from(s, i + 1, indent, next))

indent_str_v2(s, o) ==
    Bind(make_indent(o), LAMBDA indent :
        [status |-> "Ok", val |-> indent_str_v2_from(s, 1, indent, indent)])

\* the breaks of the String once the indent is in front, last one first
RECURSIVE insert_at_breaks(_, _, _)
insert_at_breaks(s, i, indent) ==
    IF i = 0 THEN s
    ELSE IF s[i] = 10
        THEN Bind(SubSeq(s, 1, i) \o indent \o SubSeq(s, i + 1, Len(s)),
                  LAMBDA next : insert_at_breaks(next, i - 1, indent))
        ELSE insert_at_breaks(s, i - 1, indent)

\* the String after the call
indent_in_place(s, o) ==
    Bind(make_indent(o), LAMBDA indent :
    Bind(indent \o s, LAMBDA inserted :
        [text |-> insert_at_breaks(inserted, Len(inserted), indent),
         status |-> "Ok"]))

(***************************************************************************)
(* State.                                                                  *)
(*   aw       the ansi::Writer under test                                  *)
(*   input    every character passed to aw.write_str so far, in order      *)
(*   ret      the last call: operation, argument, status, returned value   *)
(*   emitted  the bytes the last call appended to the sink                 *)
(*   before   last_seq and seq_changed before the last character the last  *)
(*            write_str processed (before the call, for the other calls)   *)
(*   nctl     number of control calls so far: reset_ansi / restore_ansi,   *)
(*            close, and changes of the Buffer other than pushes           *)
(*   pw       the padding::Writer under test                               *)
(*   tw       the truncate::Writer under test                              *)
(*   bytesIn  the byte string handed to the byte entry points              *)
(*   buffer   the bytes of the ansi::Buffer under test                     *)
(*   vis      the Viserator under test                                     *)
(*   yielded  the characters vis.next() has returned so far, in order      *)
(*   text     the String handed to the dedent and indent functions         *)
(*   options  the IndentOptions handed to the indent functions             *)
(***************************************************************************)
VARIABLES aw, input, ret, emitted, before, nctl, pw, tw, bytesIn,
          buffer, vis, yielded, text, options

vars == <<aw, input, ret, emitted, before, nctl, pw, tw, bytesIn,
          buffer, vis, yielded, text, options>>

Appended(old, new) == SubSeq(new.writer, Len(old.writer) + 1, Len(new.writer))

Snapshot(w) == [last_seq |-> w.last_seq, seq_changed |-> w.seq_changed]

NoCall == [op |-> "new", arg |-> <<>>, status |-> "Ok", val |-> 0]

InitWith(bounded, cap) ==
    /\ aw = Writer_new(bounded, cap)
    /\ input = <<>>
    /\ ret = NoCall
    /\ emitted = <<>>
    /\ before = Snapshot(aw)
    /\ nctl = 0
    /\ pw = padding_new(0)
    /\ tw = truncate_new(0)
    /\ bytesIn = <<>>
    /\ buffer = <<>>
    /\ vis = Viserator_new(<<>>)
    /\ yielded = <<>>
    /\ text = <<>>
    /\ options = IndentOptions_default

\* Writer::from_vec / from_string / from_bytes
Init == InitWith(FALSE, 0)

\* Writer::from_byte_slice
InitSlice == \E cap \in 0..MaxSliceCap : InitWith(TRUE, cap)

\* the work done so far and the work one run may do
Work == Len(input) + nctl

Budget == IF aw.bounded THEN MaxSliceWork ELSE MaxWork

WriteStr ==
    \E s \in Strings(MaxChunk) :
        /\ Work + Len(s) <= Budget
        /\ \E r \in {write_str(aw, s)} :
           LET n == IF r.at = 0 THEN Len(s) ELSE r.at
           IN /\ aw' = r.w
              /\ ret' = [op |-> "write_str", arg |-> s,
                         status |-> r.status, val |-> r.val]
              /\ emitted' = Appended(aw, r.w)
              /\ before' = Snapshot(write_str(aw, SubSeq(s, 1, n - 1)).w)
        /\ input' = input \o s
        /\ nctl' = nctl
        /\ UNCHANGED <<pw, tw, bytesIn, buffer, vis, yielded,
                       text, options>>

ResetAnsi ==
    /\ Work < Budget
    /\ \E r \in {reset_ansi(aw)} :
          /\ aw' = r.w
          /\ ret' = [op |-> "reset_ansi", arg |-> <<>>,
                     status |-> r.status, val |-> 0]
          /\ emitted' = Appended(aw, r.w)
    /\ before' = Snapshot(aw)
    /\ nctl' = nctl + 1
    /\ UNCHANGED <<input, pw, tw, bytesIn, buffer, vis, yielded,
                   text, options>>

RestoreAnsi ==
    /\ Work < Budget
    /\ \E r \in {restore_ansi(aw)} :
          /\ aw' = r.w
          /\ ret' = [op |-> "restore_ansi", arg |-> <<>>,
                     status |-> r.status, val |-> 0]
          /\ emitted' = Appended(aw, r.w)
    /\ before' = Snapshot(aw)
    /\ nctl' = nctl + 1
    /\ UNCHANGED <<input, pw, tw, bytesIn, buffer, vis, yielded,
                   text, options>>

Next == WriteStr \/ ResetAnsi \/ RestoreAnsi

Spec == Init /\ [][Next]_vars

SpecSlice == InitSlice /\ [][Next]_vars

(***************************************************************************)
(* The byte entry points, each called once on a fresh writer with a byte   *)
(* string that may or may not be UTF-8.                                    *)
(***************************************************************************)
\* a  \n  ESC  m  and the two bytes of e-acute, 0xC3 0xA9, and 0xFF
Bytes == {97, 10, 27, 109, 195, 169, 255}

ByteStrings(n) == UNION {[1..k -> Bytes] : k \in 0..n}

InitBytes ==
    /\ aw = Writer_new(FALSE, 0)
    /\ input = <<>>
    /\ ret = NoCall
    /\ emitted = <<>>
    /\ before = Snapshot(aw)
    /\ nctl = 0
    /\ \E width \in 0..MaxWidth :
           /\ pw = padding_new(width)
           /\ tw = truncate_new(width)
    /\ bytesIn \in ByteStrings(MaxBytes)
    /\ buffer = <<>>
    /\ vis = Viserator_new(<<>>)
    /\ yielded = <<>>
    /\ text = <<>>
    /\ options = IndentOptions_default

Fresh == ret.op = "new"

Returned(op, r) == [op |-> op, arg |-> bytesIn, status |-> r.status, val |-> r.val]

AnsiWriteBytes ==
    /\ Fresh
    /\ \E r \in {write_bytes(aw, bytesIn)} :
          /\ aw' = r.w
          /\ ret' = Returned("ansi::write_bytes", r)
          /\ emitted' = Appended(aw, r.w)
    /\ UNCHANGED <<input, before, nctl, pw, tw, bytesIn, buffer, vis, yielded,
                   text, options>>

PaddingWriteBytes ==
    /\ Fresh
    /\ \E r \in {padding_write_bytes(pw, bytesIn)} :
          /\ pw' = r.w
          /\ ret' = Returned("padding::write_bytes", r)
          /\ emitted' = Appended(pw.ansi_writer, r.w.ansi_writer)
    /\ UNCHANGED <<aw, input, before, nctl, tw, bytesIn, buffer, vis, yielded,
                   text, options>>

PadBytes ==
    /\ Fresh
    /\ \E r \in {pad_bytes(bytesIn, pw.padding)} :
          /\ pw' = r.w
          /\ ret' = Returned("padding::pad_bytes", r)
          /\ emitted' = Appended(pw.ansi_writer, r.w.ansi_writer)
    /\ UNCHANGED <<aw, input, before, nctl, tw, bytesIn, buffer, vis, yielded,
                   text, options>>

TruncateWriteBytes ==
    /\ Fresh
    /\ \E r \in {truncate_write_bytes(tw, bytesIn)} :
          /\ tw' = r.w
          /\ ret' = Returned("truncate::write_bytes", r)
          /\ emitted' = Appended(tw.ansi_writer, r.w.ansi_writer)
    /\ UNCHANGED <<aw, input, before, nctl, pw, bytesIn, buffer, vis, yielded,
                   text, options>>

NextBytes ==
    AnsiWriteBytes \/ PaddingWriteBytes \/ PadBytes \/ TruncateWriteBytes

SpecBytes == InitBytes /\ [][NextBytes]_vars

(***************************************************************************)
(* The width scanners and the visible iterator, applied to one text; the   *)
(* Buffer may also be built from bytes that are not UTF-8.                 *)
(***************************************************************************)
\* ESC  [  m  TAB  \n  and the thinking-face emoji (four bytes in UTF-8)
TextChars == {27, 91, 109, 9, 10, 129300}

Texts(n) == UNION {[1..k -> TextChars] : k \in 0..n}

InitText ==
    /\ aw = Writer_new(FALSE, 0)
    /\ input = <<>>
    /\ ret = NoCall
    /\ emitted = <<>>
    /\ before = Snapshot(aw)
    /\ nctl = 0
    /\ pw = padding_new(0)
    /\ tw = truncate_new(0)
    /\ bytesIn = <<>>
    /\ yielded = <<>>
    /\ text = <<>>
    /\ options = IndentOptions_default
    /\ \/ \E t \in Texts(MaxText) :
              /\ buffer = Buffer_from_str(t)
              /\ vis = Viserator_new(t)
       \/ \E b \in ByteStrings(MaxBytes) :
              /\ buffer = Buffer_from_vec(b)
              /\ vis = Viserator_new(<<>>)

writerVars == <<aw, input, emitted, before, nctl, pw, tw, bytesIn>>

BufferVisibleLen ==
    /\ \E r \in {visible_len(buffer)} :
          ret' = [op |-> "Buffer::visible_len", arg |-> buffer,
                  status |-> r.status, val |-> r.val]
    /\ UNCHANGED <<writerVars, buffer, vis, yielded,
                   text, options>>

BufferVisibleLenAscii ==
    /\ \E r \in {visible_len_ascii(buffer)} :
          ret' = [op |-> "Buffer::visible_len_ascii", arg |-> buffer,
                  status |-> r.status, val |-> r.val]
    /\ UNCHANGED <<writerVars, buffer, vis, yielded,
                   text, options>>

BufferToStr ==
    /\ \E r \in {to_str(buffer)} :
          ret' = [op |-> "Buffer::to_str", arg |-> buffer,
                  status |-> r.status, val |-> r.val]
    /\ UNCHANGED <<writerVars, buffer, vis, yielded,
                   text, options>>

VisibleWidth ==
    /\ \E r \in {visible_width(vis.input)} :
          ret' = [op |-> "visible_width", arg |-> vis.input,
                  status |-> "Ok", val |-> r]
    /\ UNCHANGED <<writerVars, buffer, vis, yielded,
                   text, options>>

ViseratorNext ==
    /\ \E r \in {vis_next(vis)} :
          /\ vis' = r.v
          /\ yielded' = IF r.status = "Some" THEN Append(yielded, r.val)
                        ELSE yielded
          /\ ret' = [op |-> "Viserator::next", arg |-> <<>>,
                     status |-> r.status, val |-> r.val]
    /\ UNCHANGED <<writerVars, buffer, text, options>>

NextText ==
    \/ BufferVisibleLen
    \/ BufferVisibleLenAscii
    \/ BufferToStr
    \/ VisibleWidth
    \/ ViseratorNext

SpecText == InitText /\ [][NextText]_vars

(***************************************************************************)
(* The escape classifier, applied to one character.                        *)
(***************************************************************************)
\* every code point up to MaxChar, and some beyond: U+0140 and U+017A (low
\* byte in a terminator range), the euro sign, the thinking-face emoji
ProbeChars == (0..MaxChar) \cup {320, 378, 8364, 129300}

IsTerminator ==
    /\ \E ch \in ProbeChars :
          ret' = [op |-> "is_terminator", arg |-> <<ch>>,
                  status |-> "Ok", val |-> is_terminator(ch)]
    /\ UNCHANGED <<writerVars, buffer, vis, yielded,
                   text, options>>

NextClassify == IsTerminator

SpecClassify == Init /\ [][NextClassify]_vars

(***************************************************************************)
(* The padding::Writer: write_str in chunks, close, and pad_string, which  *)
(* does new, write_str and close in one call.  input holds the characters  *)
(* written so far and nctl the number of close calls.                      *)
(***************************************************************************)
InitPad ==
    /\ aw = Writer_new(FALSE, 0)
    /\ input = <<>>
    /\ ret = NoCall
    /\ emitted = <<>>
    /\ before = Snapshot(aw)
    /\ nctl = 0
    /\ \E width \in 0..MaxWidth : pw = padding_new(width)
    /\ tw = truncate_new(0)
    /\ bytesIn = <<>>
    /\ buffer = <<>>
    /\ vis = Viserator_new(<<>>)
    /\ yielded = <<>>
    /\ text = <<>>
    /\ options = IndentOptions_default

PaddingWriteStr ==
    \E s \in Texts(MaxChunk) :
        /\ s # <<>>
        /\ Work + Len(s) <= MaxPadWork
        /\ \E r \in {padding_write_str(pw, s)} :
              /\ pw' = r.w
              /\ ret' = [op |-> "padding::write_str", arg |-> s,
                         status |-> r.status, val |-> r.val]
              /\ emitted' = Appended(pw.ansi_writer, r.w.ansi_writer)
        /\ input' = input \o s
        /\ before' = Snapshot(pw.ansi_writer)
        /\ UNCHANGED <<aw, nctl, tw, bytesIn, buffer, vis, yielded,
                       text, options>>

PaddingClose ==
    /\ Work < MaxPadWork
    /\ \E r \in {padding_close(pw)} :
          /\ pw' = r.w
          /\ ret' = [op |-> "padding::close", arg |-> <<>>,
                     status |-> r.status, val |-> 0]
          /\ emitted' = Appended(pw.ansi_writer, r.w.ansi_writer)
    /\ before' = Snapshot(pw.ansi_writer)
    /\ nctl' = nctl + 1
    /\ UNCHANGED <<aw, input, tw, bytesIn, buffer, vis, yielded,
                   text, options>>

PadString ==
    /\ Fresh
    /\ \E s \in Texts(MaxPadWork - 1) :
       \E r \in {pad_string(s, pw.padding)} :
          /\ pw' = r.w
          /\ ret' = [op |-> "padding::pad_string", arg |-> s,
                     status |-> r.status, val |-> r.val]
          /\ emitted' = Appended(pw.ansi_writer, r.w.ansi_writer)
          /\ input' = s
    /\ before' = Snapshot(pw.ansi_writer)
    /\ nctl' = 1
    /\ UNCHANGED <<aw, tw, bytesIn, buffer, vis, yielded,
                   text, options>>

NextPad == PaddingWriteStr \/ PaddingClose \/ PadString

SpecPad == InitPad /\ [][NextPad]_vars

(***************************************************************************)
(* The truncate::Writer: built by new or with_ending, write_str in chunks, *)
(* and truncate_string.  input holds the characters written so far.        *)
(***************************************************************************)
\* empty, ".", the one-character ellipsis, a tab, and a styled "."
Tails == {<<>>, <<46>>, <<8230>>, <<9>>, <<27, 109, 46>>}

InitTrunc ==
    /\ aw = Writer_new(FALSE, 0)
    /\ input = <<>>
    /\ ret = NoCall
    /\ emitted = <<>>
    /\ before = Snapshot(aw)
    /\ nctl = 0
    /\ pw = padding_new(0)
    /\ \E width \in 0..MaxWidth :
           \/ tw = truncate_new(width)
           \/ \E tail \in Tails : tw = truncate_with_ending(width, tail)
    /\ bytesIn = <<>>
    /\ buffer = <<>>
    /\ vis = Viserator_new(<<>>)
    /\ yielded = <<>>
    /\ text = <<>>
    /\ options = IndentOptions_default

TruncateWriteStr ==
    \E s \in Texts(MaxChunk) :
        /\ s # <<>>
        /\ ret.op # "truncate_string"
        /\ Len(input) + Len(s) <= MaxText
        /\ \E r \in {truncate_write_str(tw, s)} :
              /\ tw' = r.w
              /\ ret' = [op |-> "truncate::write_str", arg |-> s,
                         status |-> r.status, val |-> r.val]
              /\ emitted' = Appended(tw.ansi_writer, r.w.ansi_writer)
        /\ input' = input \o s
        /\ UNCHANGED <<aw, before, nctl, pw, bytesIn, buffer, vis, yielded,
                       text, options>>

TruncateString ==
    /\ Fresh
    /\ \E s \in Texts(MaxText) :
       \E r \in {truncate_string(s, tw.width, tw.tail)} :
          /\ tw' = r.w
          /\ ret' = [op |-> "truncate_string", arg |-> s,
                     status |-> r.status, val |-> r.val]
          /\ emitted' = Appended(tw.ansi_writer, r.w.ansi_writer)
          /\ input' = s
    /\ UNCHANGED <<aw, before, nctl, pw, bytesIn, buffer, vis, yielded,
                   text, options>>

NextTrunc == TruncateWriteStr \/ TruncateString

SpecTrunc == InitTrunc /\ [][NextTrunc]_vars

(***************************************************************************)
(* dedent_str, dedent_string and dedent_in_place, each applied once to a   *)
(* text of spaces, tabs, newlines and the letter a.                        *)
(***************************************************************************)
DedentChars == {32, 9, 10, 97}

Docs(chars, n) == UNION {[1..k -> chars] : k \in 0..n}

InitDoc(chars, opts) ==
    /\ aw = Writer_new(FALSE, 0)
    /\ input = <<>>
    /\ ret = NoCall
    /\ emitted = <<>>
    /\ before = Snapshot(aw)
    /\ nctl = 0
    /\ pw = padding_new(0)
    /\ tw = truncate_new(0)
    /\ bytesIn = <<>>
    /\ buffer = <<>>
    /\ vis = Viserator_new(<<>>)
    /\ yielded = <<>>
    /\ text \in Docs(chars, MaxDoc)
    /\ options \in opts

InitDedent == InitDoc(DedentChars, {IndentOptions_default})

DedentStr ==
    /\ Fresh
    /\ \E r \in {dedent_str(text)} :
          ret' = [op |-> "dedent_str", arg |-> text,
                  status |-> r.status, val |-> r.val]
    /\ UNCHANGED <<writerVars, buffer, vis, yielded, text, options>>

DedentString ==
    /\ Fresh
    /\ \E r \in {dedent_string(text)} :
          ret' = [op |-> "dedent_string", arg |-> text,
                  status |-> r.status, val |-> r.val]
    /\ UNCHANGED <<writerVars, buffer, vis, yielded, text, options>>

DedentInPlace ==
    /\ Fresh
    /\ \E r \in {dedent_in_place(text)} :
          /\ text' = r.text
          /\ ret' = [op |-> "dedent_in_place", arg |-> text,
                     status |-> r.status, val |-> 0]
    /\ UNCHANGED <<writerVars, buffer, vis, yielded, options>>

NextDedent == DedentStr \/ DedentString \/ DedentInPlace

SpecDedent == InitDedent /\ [][NextDedent]_vars

(***************************************************************************)
(* indent_str (checked or not), indent_str_v2 and indent_in_place, each    *)
(* applied once to a text of spaces, tabs, newlines, carriage returns and  *)
(* the letter a, under spaces or tabs repeated 0..MaxIndent times.         *)
(***************************************************************************)
IndentChars == {32, 9, 10, 13, 97}

IndentOptionsSet ==
    {IndentOptions_spaces(n) : n \in 0..MaxIndent}
        \cup {IndentOptions_tabs(n) : n \in 0..MaxIndent}

InitIndent == InitDoc(IndentChars, IndentOptionsSet)

IndentStr ==
    /\ Fresh
    /\ \E checked \in BOOLEAN :
       \E r \in {indent_str(text, options, checked)} :
          ret' = [op |-> "indent_str", arg |-> text, checked |-> checked,
                  status |-> r.status, val |-> r.val]
    /\ UNCHANGED <<writerVars, buffer, vis, yielded, text, options>>

IndentStrV2 ==
    /\ Fresh
    /\ \E r \in {indent_str_v2(text, options)} :
          ret' = [op |-> "indent_str_v2", arg |-> text,
                  status |-> r.status, val |-> r.val]
    /\ UNCHANGED <<writerVars, buffer, vis, yielded, text, options>>

IndentInPlace ==
    /\ Fresh
    /\ \E r \in {indent_in_place(text, options)} :
          /\ text' = r.text
          /\ ret' = [op |-> "indent_in_place", arg |-> text,
                     status |-> r.status, val |-> 0]
    /\ UNCHANGED <<writerVars, buffer, vis, yielded, options>>

NextIndent == IndentStr \/ IndentStrV2 \/ IndentInPlace

SpecIndent == InitIndent /\ [][NextIndent]_vars

(***************************************************************************)
(* One text scanned by the three components that classify escapes: the     *)
(* ansi::Writer writes it in one call, the Viserator iterates over it and  *)
(* the Buffer measures it.                                                 *)
(***************************************************************************)
WriterWriteStr ==
    /\ input = <<>>
    /\ aw = Writer_new(FALSE, 0)
    /\ \E r \in {write_str(aw, vis.input)} :
       LET n == IF r.at = 0 THEN Len(vis.input) ELSE r.at
       IN /\ aw' = r.w
          /\ ret' = [op |-> "write_str", arg |-> vis.input,
                     status |-> r.status, val |-> r.val]
          /\ emitted' = Appended(aw, r.w)
          /\ before' = Snapshot(write_str(aw, SubSeq(vis.input, 1, n - 1)).w)
    /\ input' = vis.input
    /\ UNCHANGED <<nctl, pw, tw, bytesIn, buffer, vis, yielded,
                   text, options>>

NextScan == WriterWriteStr \/ ViseratorNext \/ BufferVisibleLen

SpecScan == InitText /\ [][NextScan]_vars

(***************************************************************************)
(* An ansi::Buffer that starts empty and is changed by every public way of *)
(* changing its bytes: push_str, push_char, a store through data_mut,      *)
(* Buf::advance and BufMut::put_slice.  input holds the characters pushed  *)
(* so far and nctl the number of the other changes.                        *)
(***************************************************************************)
\* a, e-acute, L-stroke, the euro sign and a four-byte character
PushChars == {97, 233, 321, 8364, 129300}

\* the byte of a and a byte that no UTF-8 text holds
RawBytes == {97, 255}

\* the calls made so far are counted against MaxText, a change other than a
\* push as much as two pushed characters
PushWork == Len(input) + 2 * nctl

BufferPushStr ==
    \E s \in UNION {[1..k -> PushChars] : k \in 0..MaxChunk} :
        /\ PushWork + Len(s) <= MaxText
        /\ buffer' = push_str(buffer, s)
        /\ input' = input \o s
        /\ ret' = [op |-> "Buffer::push_str", arg |-> s,
                   status |-> "Ok", val |-> 0]
        /\ UNCHANGED <<aw, emitted, before, nctl, pw, tw, bytesIn, vis,
                       yielded, text, options>>

BufferPushChar ==
    \E c \in PushChars :
        /\ PushWork < MaxText
        /\ buffer' = push_char(buffer, c)
        /\ input' = Append(input, c)
        /\ ret' = [op |-> "Buffer::push_char", arg |-> <<c>>,
                   status |-> "Ok", val |-> 0]
        /\ UNCHANGED <<aw, emitted, before, nctl, pw, tw, bytesIn, vis,
                       yielded, text, options>>

BufferDataMut ==
    \E i \in 1..Len(buffer), b \in RawBytes :
        /\ PushWork + 2 <= MaxText
        /\ buffer' = data_mut_store(buffer, i, b)
        /\ nctl' = nctl + 1
        /\ ret' = [op |-> "Buffer::data_mut", arg |-> <<i, b>>,
                   status |-> "Ok", val |-> 0]
        /\ UNCHANGED <<aw, input, emitted, before, pw, tw, bytesIn, vis,
                       yielded, text, options>>

BufferAdvance ==
    \E cnt \in 0..(Len(buffer) + 1) :
        /\ PushWork + 2 <= MaxText
        /\ \E r \in {buf_advance(buffer, cnt)} :
              /\ buffer' = r.buf
              /\ ret' = [op |-> "Buf::advance", arg |-> <<cnt>>,
                         status |-> r.status, val |-> 0]
        /\ nctl' = nctl + 1
        /\ UNCHANGED <<aw, input, emitted, before, pw, tw, bytesIn, vis,
                       yielded, text, options>>

BufferPutSlice ==
    \E src \in UNION {[1..k -> RawBytes] : k \in 0..MaxChunk} :
        /\ PushWork + 2 <= MaxText
        /\ buffer' = put_slice(buffer, src)
        /\ nctl' = nctl + 1
        /\ ret' = [op |-> "BufMut::put_slice", arg |-> src,
                   status |-> "Ok", val |-> 0]
        /\ UNCHANGED <<aw, input, emitted, before, pw, tw, bytesIn, vis,
                       yielded, text, options>>

BufferTruncateVisible ==
    \E len \in 0..MaxText :
        /\ \E r \in {truncate_visible(buffer, len)} :
              ret' = [op |-> "Buffer::truncate_visible", arg |-> <<len>>,
                      status |-> r.status, val |-> r.val]
        /\ UNCHANGED <<writerVars, buffer, vis, yielded, text, options>>

NextPush ==
    \/ BufferPushStr
    \/ BufferPushChar
    \/ BufferDataMut
    \/ BufferAdvance
    \/ BufferPutSlice
    \/ BufferTruncateVisible
    \/ BufferToStr

SpecPush == Init /\ [][NextPush]_vars

TypeOK ==
    /\ aw.ansi \in BOOLEAN
    /\ aw.seq_changed \in BOOLEAN
    /\ Work <= Budget

(***************************************************************************)
(* The escape spans of a text, as section 3 of the design defines them: a  *)
(* span starts at a marker read outside a span and ends at the first       *)
(* terminator.  These operators read only the ghost variable input.        *)
(***************************************************************************)
ScanStart == [open |-> FALSE, cur |-> <<>>, closed |-> <<>>]

ScanChar(st, ch) ==
    IF ch = MARKER
        THEN [st EXCEPT !.open = TRUE, !.cur = @ \o <<ch>>]
    ELSE IF st.open
        THEN IF is_terminator(ch)
                 THEN [open |-> FALSE, cur |-> <<>>,
                       closed |-> Append(st.closed, st.cur \o <<ch>>)]
                 ELSE [st EXCEPT !.cur = @ \o <<ch>>]
    ELSE st

RECURSIVE Scan(_)
Scan(s) ==
    IF s = <<>> THEN ScanStart
    ELSE ScanChar(Scan(SubSeq(s, 1, Len(s) - 1)), s[Len(s)])

ClosedSpans(s) == Scan(s).closed

SpanOpen(s) == Scan(s).open

\* the last character of s closed a span
JustClosed(s) ==
    /\ s # <<>>
    /\ Len(ClosedSpans(s)) > Len(ClosedSpans(SubSeq(s, 1, Len(s) - 1)))

LastClosed(s) == ClosedSpans(s)[Len(ClosedSpans(s))]

IsResetSpan(span) == ends_with(as_bytes(span), RESET_SUFFIX)

IsStyleSpan(span) == span[Len(span)] = 109 /\ ~IsResetSpan(span)

\* the most recently closed non-reset 'm' span since the last reset span
RECURSIVE LastStyleOf(_)
LastStyleOf(spans) ==
    IF spans = <<>> THEN <<>>
    ELSE LET sp == spans[Len(spans)]
         IN IF IsResetSpan(sp) THEN <<>>
            ELSE IF IsStyleSpan(sp) THEN as_bytes(sp)
            ELSE LastStyleOf(SubSeq(spans, 1, Len(spans) - 1))

\* a non-reset 'm' span has closed since the last reset span
StyleActive(s) == LastStyleOf(ClosedSpans(s)) # <<>>

RECURSIVE SumLen(_)
SumLen(s) == IF s = <<>> THEN 0 ELSE len_utf8(Head(s)) + SumLen(Tail(s))

\* the step just taken was a call of the named control operation
Called(op) == ret'.op = op /\ nctl' = nctl + 1

(***************************************************************************)
(* C1: ansi::Writer is a pass-through: once every span of the text written *)
(* so far is terminated, the sink holds exactly the bytes of that text.    *)
(***************************************************************************)
C1_PassThrough ==
    (nctl = 0 /\ ~SpanOpen(input)) => aw.writer = as_bytes(input)

(***************************************************************************)
(* C2: last_sequence() and the bytes restore_ansi() emits are the single   *)
(* most recently closed non-reset 'm' span, or empty when no such span has *)
(* closed since the last reset span.                                       *)
(***************************************************************************)
C2_LastStyleIsLastSpan ==
    /\ last_sequence(aw) = LastStyleOf(ClosedSpans(input))
    /\ ret.op = "restore_ansi" => emitted = LastStyleOf(ClosedSpans(input))

(***************************************************************************)
(* C3: reset_ansi() emits nothing when no style is dirty; when one is      *)
(* dirty it emits ESC[0m and clears the dirty flag, so a second            *)
(* reset_ansi() right after it emits nothing.                              *)
(***************************************************************************)
C3_ResetClearsDirty ==
    [][Called("reset_ansi") =>
          IF aw.seq_changed
              THEN emitted' = RESET_SEQ /\ ~aw'.seq_changed
              ELSE emitted' = <<>>]_vars

TreatedAsReset == aw.last_seq = <<>> /\ ~aw.seq_changed

(***************************************************************************)
(* C4 as stated: a span that closes is treated as the reset sequence if    *)
(* and only if it is exactly ESC [ 0 m.                                    *)
(***************************************************************************)
C4_ResetIffExact ==
    JustClosed(input) => (TreatedAsReset <=> LastClosed(input) = RESET_SEQ)

(***************************************************************************)
(* C4 amended: a span that closes is treated as the reset sequence if and  *)
(* only if its bytes end with "[0m"; ESC [ 0 m is one such span, and so is *)
(* a longer span such as ESC [ [ 0 m.                                      *)
(***************************************************************************)
C4_ResetIffSuffix ==
    JustClosed(input) => (TreatedAsReset <=> IsResetSpan(LastClosed(input)))

\* a span longer than ESC[0m that ends in "[0m" has closed and has reset the style
C4_Witness ==
    /\ JustClosed(input)
    /\ Len(LastClosed(input)) > 4
    /\ IsResetSpan(LastClosed(input))
    /\ TreatedAsReset

(***************************************************************************)
(* C5: the dirty flag is true only when a non-reset 'm' span has closed    *)
(* since the last reset span; plain text, an unterminated fragment or a    *)
(* closed span that does not end in 'm' leave it false, and a following    *)
(* reset_ansi() emits nothing.                                             *)
(***************************************************************************)
C5_DirtyOnlyAfterStyle ==
    /\ aw.seq_changed => StyleActive(input)
    /\ (ret.op = "reset_ansi" /\ ~StyleActive(input)) => emitted = <<>>

(***************************************************************************)
(* C6: reset_ansi() leaves the cached last-style bytes unchanged, and a    *)
(* restore_ansi() called right after it re-emits exactly those bytes.      *)
(***************************************************************************)
C6_ResetKeepsLastSeq ==
    [][/\ Called("reset_ansi") => last_sequence(aw') = last_sequence(aw)
       /\ (ret.op = "reset_ansi" /\ Called("restore_ansi"))
              => emitted' = before.last_seq]_vars

\* a style was cached, reset_ansi() emitted ESC[0m, restore_ansi() re-emitted it
C6_Witness ==
    /\ ret.op = "restore_ansi"
    /\ nctl = 2
    /\ emitted # <<>>
    /\ emitted = aw.last_seq
    /\ ends_with(aw.writer, RESET_SEQ \o aw.last_seq)

(***************************************************************************)
(* C7: when a sink write fails inside write_str the error is returned and  *)
(* last_seq and seq_changed are what they were before the failing          *)
(* character was processed.                                                *)
(***************************************************************************)
C7_FailedWriteKeepsState ==
    (ret.op = "write_str" /\ ret.status = "Io") => Snapshot(aw) = before

(***************************************************************************)
(* C8: reset_ansi() and restore_ansi() return an Io error whenever the     *)
(* whole sequence did not fit in the sink.                                 *)
(***************************************************************************)
C8_ShortWriteIsError ==
    /\ (ret.op = "reset_ansi" /\ before.seq_changed /\ emitted # RESET_SEQ)
           => ret.status = "Io"
    /\ (ret.op = "restore_ansi" /\ emitted # before.last_seq)
           => ret.status = "Io"

(***************************************************************************)
(* C10: a successful write_str(s) returns the UTF-8 byte length of s,      *)
(* whatever s holds and however many bytes reached the sink.               *)
(***************************************************************************)
C10_ReturnsByteLength ==
    (ret.op = "write_str" /\ ret.status = "Ok") => ret.val = SumLen(ret.arg)

\* a multi-byte character and a pending marker: 3 bytes accepted, 2 in the sink
C10_Witness ==
    /\ ret.op = "write_str"
    /\ ret.status = "Ok"
    /\ \E i \in 1..Len(ret.arg) : len_utf8(ret.arg[i]) > 1
    /\ \E i \in 1..Len(ret.arg) : ret.arg[i] = MARKER
    /\ ret.val > Len(ret.arg)
    /\ ret.val # Len(emitted)

ByteEntryPoints ==
    {"ansi::write_bytes", "padding::write_bytes", "padding::pad_bytes",
     "truncate::write_bytes"}

(***************************************************************************)
(* C9: every byte-accepting write entry point, given bytes that are not    *)
(* valid UTF-8, returns a Utf8 error as a value: it does not panic, writes *)
(* nothing to its sink and leaves its writer as it was.                    *)
(***************************************************************************)
C9_InvalidBytesReported ==
    (ret.op \in ByteEntryPoints /\ ~from_utf8(bytesIn).ok) =>
        /\ ret.status = "Utf8"
        /\ emitted = <<>>
        /\ aw = Writer_new(FALSE, 0)
        /\ pw = padding_new(pw.padding)
        /\ tw = truncate_new(tw.width)

(***************************************************************************)
(* The visible text, stated from the two-state machine of the design: a    *)
(* character is shown when it is not the marker and is read outside any    *)
(* escape span.                                                            *)
(***************************************************************************)
RECURSIVE Shown(_)
Shown(s) ==
    IF s = <<>> THEN <<>>
    ELSE LET p == SubSeq(s, 1, Len(s) - 1)
             ch == s[Len(s)]
         IN IF ch # MARKER /\ ~SpanOpen(p) THEN Append(Shown(p), ch)
            ELSE Shown(p)

\* the text under test is the one the Buffer was built from
StyledText == buffer = as_bytes(vis.input)

\* where the unterminated span that s ends in starts
FragmentStart(s) ==
    CHOOSE i \in 1..Len(s) :
        /\ s[i] = MARKER
        /\ ~SpanOpen(SubSeq(s, 1, i - 1))
        /\ \A j \in i..Len(s) : SpanOpen(SubSeq(s, 1, j))

\* s without the unterminated span it ends in
Cut(s) == SubSeq(s, 1, FragmentStart(s) - 1)

\* every character a Viserator yields until it returns None
RECURSIVE Drain(_)
Drain(v) ==
    LET r == vis_next(v)
    IN IF r.status = "None" THEN <<>> ELSE <<r.val>> \o Drain(r.v)

\* the least multiple of 8 strictly greater than c
NextTabStop(c) == CHOOSE m \in (c + 1)..(c + 8) : m % 8 = 0

\* the column after s, by the rules of the column-aware scan
RECURSIVE Column(_)
Column(s) ==
    IF s = <<>> THEN 0
    ELSE LET p == SubSeq(s, 1, Len(s) - 1)
             ch == s[Len(s)]
         IN IF ch = MARKER \/ SpanOpen(p) THEN Column(p)
            ELSE IF ch = 9 THEN NextTabStop(Column(p))
            ELSE IF ch = 10 THEN 0
            ELSE Column(p) + Len(encode_utf8(ch))

\* the characters whose encodings make up the valid buffers of the model
Utf8Chars == TextChars \cup {97, 233, 32, 48}

StartsWith(b, p) == Len(b) >= Len(p) /\ SubSeq(b, 1, Len(p)) = p

\* b is the UTF-8 encoding of some text
RECURSIVE IsUtf8(_)
IsUtf8(b) ==
    \/ b = <<>>
    \/ \E c \in Utf8Chars :
          /\ StartsWith(b, encode_utf8(c))
          /\ IsUtf8(SubSeq(b, Len(encode_utf8(c)) + 1, Len(b)))

\* the text that b encodes
RECURSIVE TextOf(_)
TextOf(b) ==
    IF b = <<>> THEN <<>>
    ELSE LET c == CHOOSE c \in Utf8Chars : StartsWith(b, encode_utf8(c))
         IN <<c>> \o TextOf(SubSeq(b, Len(encode_utf8(c)) + 1, Len(b)))

\* the bytes of the shown characters of s that are not ASCII
RECURSIVE NonAsciiBytes(_)
NonAsciiBytes(s) ==
    IF s = <<>> THEN 0
    ELSE (IF Head(s) >= 128 THEN len_utf8(Head(s)) ELSE 0)
         + NonAsciiBytes(Tail(s))

(***************************************************************************)
(* C11: width/length duality: a text whose escape spans are all terminated *)
(* has the same Buffer::visible_len as the marker-free text left when the  *)
(* spans are taken out, and both are the UTF-8 byte length of that text (a *)
(* four-byte character counts 4).                                          *)
(***************************************************************************)
C11_WidthLengthDuality ==
    (ret.op = "Buffer::visible_len" /\ StyledText /\ ~SpanOpen(vis.input)) =>
        /\ ret.status = "Ok"
        /\ visible_len(as_bytes(Shown(vis.input))) =
               [status |-> "Ok", val |-> ret.val]
        /\ ret.val = Len(as_bytes(Shown(vis.input)))

\* a four-byte character after a closed span: the buffer is longer, the width 4
C11_Witness ==
    /\ ret.op = "Buffer::visible_len"
    /\ StyledText
    /\ ~SpanOpen(vis.input)
    /\ ClosedSpans(vis.input) # <<>>
    /\ Shown(vis.input) = <<129300>>
    /\ ret.val = 4
    /\ Len(buffer) > 4

(***************************************************************************)
(* C12: the Viserator yields, in input order, exactly the characters read  *)
(* outside an escape span that are not the marker; the marker, the         *)
(* characters of a span and its terminator are never yielded; it returns   *)
(* None once the input is exhausted, and only then.                        *)
(***************************************************************************)
C12_ViseratorFollowsMachine ==
    /\ yielded = Shown(SubSeq(vis.input, 1, vis.pos))
    /\ (ret.op = "Viserator::next" /\ ret.status = "Some") =>
           /\ vis.pos >= 1
           /\ ret.val = vis.input[vis.pos]
           /\ ret.val # MARKER
           /\ ~SpanOpen(SubSeq(vis.input, 1, vis.pos - 1))
    /\ (ret.op = "Viserator::next" /\ ret.status # "Some") =>
           /\ ret.status = "None"
           /\ vis.pos = Len(vis.input)
           /\ yielded = Shown(vis.input)

\* the input is exhausted: a span was skipped and a character after it yielded
C12_Witness ==
    /\ ret.op = "Viserator::next"
    /\ ret.status = "None"
    /\ ClosedSpans(vis.input) # <<>>
    /\ yielded # <<>>
    /\ yielded[Len(yielded)] = vis.input[Len(vis.input)]
    /\ Len(yielded) < Len(vis.input)

(***************************************************************************)
(* C13: when the input ends inside an unterminated escape span, nothing    *)
(* from the marker of that span to the end of the input is counted by      *)
(* Buffer::visible_len or ansi::visible_width or yielded by the Viserator: *)
(* each gives what it gives for the input cut before that marker, and each *)
(* returns (no panic, and None at the end of the input).                   *)
(***************************************************************************)
C13_TrailingFragmentIgnored ==
    (StyledText /\ SpanOpen(vis.input)) =>
        /\ ret.op = "Buffer::visible_len" =>
               /\ ret.status = "Ok"
               /\ ret.val = visible_len(as_bytes(Cut(vis.input))).val
        /\ ret.op = "visible_width" =>
               /\ ret.status = "Ok"
               /\ ret.val = visible_width(Cut(vis.input))
        /\ ret.op = "Viserator::next" =>
               /\ ret.status \in {"Some", "None"}
               /\ ret.status = "Some" => vis.pos < FragmentStart(vis.input)
               /\ ret.status = "None" =>
                      /\ vis.pos = Len(vis.input)
                      /\ yielded = Drain(Viserator_new(Cut(vis.input)))

\* a text, then a marker and two more characters: only the text was yielded
C13_Witness ==
    /\ StyledText
    /\ SpanOpen(vis.input)
    /\ ret.op = "Viserator::next"
    /\ ret.status = "None"
    /\ FragmentStart(vis.input) = Len(vis.input) - 2
    /\ vis.input[Len(vis.input)] # MARKER
    /\ yielded = Cut(vis.input)
    /\ yielded # <<>>

(***************************************************************************)
(* C14: the column of ansi::visible_width: outside escape spans a tab      *)
(* moves the column to the next multiple of 8 strictly greater than it, a  *)
(* newline sets it to 0, any other character adds its UTF-8 byte length.   *)
(***************************************************************************)
C14_ColumnTracking ==
    ret.op = "visible_width" => ret.val = Column(ret.arg)

\* two characters, a tab, one character: column 9
C14_Witness ==
    /\ ret.op = "visible_width"
    /\ ret.arg = <<109, 109, 9, 109>>
    /\ ret.val = 9

(***************************************************************************)
(* C15 as stated: on every buffer holding valid UTF-8, ASCII or not,       *)
(* visible_len_ascii() returns what visible_len_unicode() returns.         *)
(***************************************************************************)
C15_PathsAgree ==
    (ret.op = "Buffer::visible_len_ascii" /\ IsUtf8(ret.arg)) =>
        visible_len_unicode(ret.arg) = [status |-> "Ok", val |-> ret.val]

(***************************************************************************)
(* C15 amended: on a buffer holding valid UTF-8, visible_len_ascii()       *)
(* returns what visible_len_unicode() returns plus the number of bytes of  *)
(* the non-ASCII characters outside escape spans (it counts each such byte *)
(* twice); the two agree exactly when every visible character is ASCII.    *)
(***************************************************************************)
C15_PathsAgreeOnAscii ==
    (ret.op = "Buffer::visible_len_ascii" /\ IsUtf8(ret.arg)) =>
        /\ ret.status = "Ok"
        /\ visible_len_unicode(ret.arg).status = "Ok"
        /\ ret.val = visible_len_unicode(ret.arg).val
                     + NonAsciiBytes(Shown(TextOf(ret.arg)))

\* a four-byte character after a closed span: 8 by the byte path, 4 by the other
C15_Witness ==
    /\ ret.op = "Buffer::visible_len_ascii"
    /\ IsUtf8(ret.arg)
    /\ ClosedSpans(TextOf(ret.arg)) # <<>>
    /\ Shown(TextOf(ret.arg)) = <<129300>>
    /\ ret.val = 8
    /\ visible_len_unicode(ret.arg).val = 4

(***************************************************************************)
(* C16: Buffer::visible_len() and Buffer::to_str() return a Utf8 error,    *)
(* and no width or text, when the bytes of the buffer are not valid UTF-8, *)
(* and Ok when they are.                                                   *)
(***************************************************************************)
C16_DecodeErrorReported ==
    ret.op \in {"Buffer::visible_len", "Buffer::to_str"} =>
        IF IsUtf8(ret.arg)
            THEN /\ ret.status = "Ok"
                 /\ ret.op = "Buffer::to_str" => ret.val = TextOf(ret.arg)
            ELSE /\ ret.status = "Utf8"
                 /\ ret.op = "Buffer::to_str" => ret.val = <<>>
                 /\ ret.op = "Buffer::visible_len" => ret.val = 0

\* a visible character, then a byte that cannot start a character: an error
C16_Witness ==
    /\ ret.op = "Buffer::visible_len"
    /\ Len(ret.arg) >= 2
    /\ ret.arg[1] = 97
    /\ ret.arg[2] = 255
    /\ ret.status = "Utf8"

(***************************************************************************)
(* C17: is_terminator(ch) is true if and only if the code point of ch is   *)
(* in 0x40..0x5A or in 0x61..0x7A.                                         *)
(***************************************************************************)
C17_TerminatorRanges ==
    ret.op = "is_terminator" =>
        (ret.val <=> ret.arg[1] \in (64..90) \cup (97..122))

\* '[' lies between the two ranges and is not a terminator
C17_Witness ==
    /\ ret.op = "is_terminator"
    /\ ret.arg = <<91>>
    /\ ret.val = FALSE

(***************************************************************************)
(* The padding Writer seen from outside: the text it has sent to its       *)
(* style-tracking writer, and the steps that read a newline or close.      *)
(***************************************************************************)
\* the text in the sink of the style-tracking writer
PaddedText == TextOf(pw.ansi_writer.writer)

\* every line of out that a newline ends is at least width columns wide
LinesPadded(out, width) ==
    \A i \in 1..Len(out) :
        (out[i] = 10 /\ ~SpanOpen(SubSeq(out, 1, i - 1)))
            => Column(SubSeq(out, 1, i - 1)) >= width

\* the step wrote the single character newline, read outside an escape span,
\* to a Writer that has not been closed
NewlineRead ==
    /\ ret'.op = "padding::write_str"
    /\ ret'.arg = <<10>>
    /\ input' = Append(input, 10)
    /\ ~SpanOpen(input)
    /\ nctl = 0

\* the step was the first close, on a line that is not inside an escape span
FirstClose ==
    /\ ret'.op = "padding::close"
    /\ nctl = 0
    /\ nctl' = 1
    /\ ~SpanOpen(input)

\* what reset_ansi sends: the reset sequence when a style is dirty
ResetBytes(w) == IF w.seq_changed THEN RESET_SEQ ELSE <<>>

(***************************************************************************)
(* C18: padding invariant: every line the padding Writer has sent to its   *)
(* style-tracking writer, and every line of the text pad_string returns,   *)
(* has a visible width of at least the target width W.                     *)
(***************************************************************************)
C18_LinesAtLeastWidth ==
    /\ nctl = 0 => LinesPadded(PaddedText, pw.padding)
    /\ (ret.op = "padding::pad_string" /\ ret.status = "Ok") =>
           /\ LinesPadded(PaddedText, pw.padding)
           /\ LinesPadded(ret.val, pw.padding)

(***************************************************************************)
(* C19: at a newline read outside an escape span the padding Writer sends  *)
(* W - c spaces when c < W and none otherwise, c being the column of the   *)
(* line before the newline (tabs expanded, the newline not counted), then  *)
(* resets the style, then forwards the newline, and its column counter is  *)
(* 0 afterwards.                                                           *)
(***************************************************************************)
C19_NewlinePadsToWidth ==
    [][NewlineRead =>
          /\ ret'.status = "Ok"
          /\ emitted' = Spaces(IF Column(input) < pw.padding
                                   THEN pw.padding - Column(input) ELSE 0)
                        \o ResetBytes(pw.ansi_writer) \o <<10>>
          /\ pw'.line_len = 0]_vars

(***************************************************************************)
(* C20: a line whose visible width (its column, as ansi::visible_width     *)
(* measures it) is W or more gets no padding space, neither at the newline *)
(* that ends it nor at close() when it is the last, unterminated line.     *)
(***************************************************************************)
C20_NoPaddingAtWidth ==
    [][/\ (NewlineRead /\ Column(input) >= pw.padding)
              => emitted' = ResetBytes(pw.ansi_writer) \o <<10>>
       /\ (FirstClose /\ Column(input) >= pw.padding)
              => emitted' = <<>>]_vars

(***************************************************************************)
(* C21: padding spaces are never styled: where a padding space follows a   *)
(* line on which a non-reset 'm' span is active, a reset sequence comes    *)
(* between the line's text and the space, so that no style is active at    *)
(* any padding space in the stream the padding Writer sends.  The input of *)
(* the model holds no space, so every space in the stream is padding.      *)
(***************************************************************************)
C21_PaddingUnstyled ==
    \A i \in 1..Len(PaddedText) :
        PaddedText[i] = 32 => ~StyleActive(SubSeq(PaddedText, 1, i - 1))

(***************************************************************************)
(* C22: the text pad_string returns is the padded stream that went through *)
(* the padding Writer; it is not empty when the input is not.              *)
(***************************************************************************)
C22_PadStringReturnsStream ==
    (ret.op = "padding::pad_string" /\ ret.status = "Ok") =>
        /\ ret.val = PaddedText
        /\ ret.arg # <<>> => ret.val # <<>>

(***************************************************************************)
(* C27: the pending-escape buffer of ansi::Writer is empty whenever the    *)
(* writer is not inside an escape span.                                    *)
(***************************************************************************)
C27_PendingEmptyOutsideSpan ==
    ~aw.ansi => aw.ansi_seq = <<>>

NoTabNewline(s) == \A i \in 1..Len(s) : s[i] \notin {9, 10}

(***************************************************************************)
(* C28: Buffer::visible_len is the counting mode of the scanner: it equals *)
(* ansi::visible_width on every text without tab and newline, and on every *)
(* text it counts each character outside an escape span, a tab and a       *)
(* newline included, by its UTF-8 length (1 for a tab or a newline).       *)
(***************************************************************************)
C28_CountingAndColumnModes ==
    (ret.op = "Buffer::visible_len" /\ StyledText) =>
        /\ ret.status = "Ok"
        /\ NoTabNewline(vis.input) => ret.val = visible_width(vis.input)
        /\ ret.val = SumLen(Shown(vis.input))

\* a tab and a newline outside any span: the count is not the column
C28_Witness ==
    /\ ret.op = "Buffer::visible_len"
    /\ StyledText
    /\ \E i, j \in 1..Len(Shown(vis.input)) :
           Shown(vis.input)[i] = 9 /\ Shown(vis.input)[j] = 10
    /\ ret.val = Len(Shown(vis.input))
    /\ ret.val # visible_width(vis.input)

(***************************************************************************)
(* C29: when the input ends in the middle of a line, close() handles the   *)
(* end of the line as a newline does: it sends W - c spaces when the       *)
(* column c is less than W, then resets the style, and the column counter  *)
(* is 0 afterwards.                                                        *)
(***************************************************************************)
C29_CloseEndsLine ==
    [][(FirstClose /\ Column(input) # 0 /\ input[Len(input)] # 10) =>
          /\ ret'.status = "Ok"
          /\ emitted' = Spaces(IF Column(input) < pw.padding
                                   THEN pw.padding - Column(input) ELSE 0)
                        \o ResetBytes(pw.ansi_writer)
          /\ pw'.line_len = 0]_vars

(***************************************************************************)
(* C30: chunking invariance: however the text written so far was split     *)
(* into write_str calls, inside an escape span or not, the sink and the    *)
(* state of the ansi::Writer are those a single write_str of the whole     *)
(* text leaves.                                                            *)
(***************************************************************************)
C30_ChunkingInvariance ==
    nctl = 0 => aw = write_str(Writer_new(FALSE, 0), input).w

\* the last call started inside a span that an earlier call had opened, and
\* closed it as a style
C30_Witness ==
    /\ nctl = 0
    /\ ret.op = "write_str"
    /\ Len(input) > Len(ret.arg)
    /\ SpanOpen(SubSeq(input, 1, Len(input) - Len(ret.arg)))
    /\ ~SpanOpen(input)
    /\ aw.last_seq # <<>>
    /\ aw.writer # <<>>
(***************************************************************************)
(* truncate                                                                *)
(***************************************************************************)
\* C23: for every input, width W and tail with W >= visible_width(tail),
\* truncate_string(input, W, tail) returns an output whose visible width is
\* the smaller of the input's visible width and W.
C23_TruncationBoundary ==
    (ret.op = "truncate_string" /\ tw.width >= visible_width(tw.tail)) =>
        /\ ret.status = "Ok"
        /\ visible_width(ret.val) = Min(visible_width(ret.arg), tw.width)

\* C24: when W < visible_width(tail) the whole output of truncation is the
\* tail, exactly once, whatever was written and in however many calls, and
\* truncate_string returns the tail.
C24_DegenerateIsTailOnce ==
    (tw.width < visible_width(tw.tail) /\ ret.op # "new") =>
        /\ ret.status = "Ok"
        /\ tw.buf = as_bytes(tw.tail)
        /\ ret.op = "truncate_string" => ret.val = tw.tail

(***************************************************************************)
(* dedent and indent                                                       *)
(***************************************************************************)
\* the lines of s: the pieces between its newlines, the last one included
\* even when it is empty
RECURSIVE LinesOf(_)
LinesOf(s) ==
    IF \A i \in 1..Len(s) : s[i] # 10 THEN <<s>>
    ELSE LET n == CHOOSE i \in 1..Len(s) :
                      s[i] = 10 /\ \A j \in 1..(i - 1) : s[j] # 10
         IN <<SubSeq(s, 1, n - 1)>> \o LinesOf(SubSeq(s, n + 1, Len(s)))

\* the lines put together again, a newline between each two
RECURSIVE Join(_)
Join(ls) ==
    IF Len(ls) = 1 THEN ls[1] ELSE ls[1] \o <<10>> \o Join(Tail(ls))

IsBlank(ch) == ch \in {32, 9}

\* the number of spaces and tabs a line starts with
Leading(line) ==
    CHOOSE n \in 0..Len(line) :
        /\ \A i \in 1..n : IsBlank(line[i])
        /\ n = Len(line) \/ ~IsBlank(line[n + 1])

HasText(line) == \E i \in 1..Len(line) : ~IsBlank(line[i])

\* the indentation shared amongst all lines of s that hold text
SharedIndent(s) ==
    LET ls == LinesOf(s)
        held == {i \in 1..Len(ls) : HasText(ls[i])}
    IN IF held = {} THEN 0
       ELSE CHOOSE k \in {Leading(ls[i]) : i \in held} :
                \A i \in held : k <= Leading(ls[i])

\* s with the shared indentation removed from each line that holds text
Dedented(s) ==
    LET ls == LinesOf(s)
        k == SharedIndent(s)
    IN Join([i \in 1..Len(ls) |->
                IF HasText(ls[i]) THEN SubSeq(ls[i], k + 1, Len(ls[i]))
                ELSE ls[i]])

\* what the last dedent call produced: the returned String, or the String
\* it changed in place
DedentResult == IF ret.op = "dedent_in_place" THEN text ELSE ret.val

\* C25: dedent_str removes the indentation shared amongst all lines: with k
\* the least number of leading spaces and tabs over the lines that hold a
\* non-whitespace character, the output is the input with exactly k leading
\* characters removed from each such line (the input itself when k = 0);
\* dedent_string and dedent_in_place give the same result.
C25_DedentRemovesSharedIndent ==
    ret.op \in {"dedent_str", "dedent_string", "dedent_in_place"} =>
        /\ ret.status = "Ok"
        /\ DedentResult = Dedented(ret.arg)
        /\ SharedIndent(ret.arg) = 0 => DedentResult = ret.arg

\* the indent an IndentOptions stands for
IndentOf(o) == [i \in 1..o.number |-> IF o.style = "Tabs" THEN 9 ELSE 32]

\* s with the indent in front of each of its lines
Indented(s, o) ==
    LET ls == LinesOf(s)
    IN Join([i \in 1..Len(ls) |-> IndentOf(o) \o ls[i]])

\* what the last indent call produced
IndentResult == IF ret.op = "indent_in_place" THEN text ELSE ret.val

\* C26: the indentation variants agree: for every input and IndentOptions,
\* indent_str unchecked, indent_str checked, indent_str_v2 and the String
\* left by indent_in_place are equal, each line of the input prefixed by the
\* indent, inputs that end with a newline or hold lines that already start
\* with the indent included.
C26_IndentVariantsAgree ==
    ret.op \in {"indent_str", "indent_str_v2", "indent_in_place"} =>
        /\ ret.status = "Ok"
        /\ IndentResult = indent_str_v2(ret.arg, options).val
        /\ IndentResult = Indented(ret.arg, options)

(***************************************************************************)
(* The two escape automata of the padding::Writer                          *)
(***************************************************************************)
\* C31: after every sequence of write_str and close calls on a padding
\* Writer, its own in_ansi flag equals the ansi flag of the style-tracking
\* writer it wraps, also after a close() made while a span is open.
C31_EscapeFlagsAgree == pw.in_ansi = pw.ansi_writer.ansi

(***************************************************************************)
(* One escape classification in every component                           *)
(***************************************************************************)
\* the run of write_str over s from writer w: the writer it ends in and the
\* characters forwarded at once, those whose step appended to the sink the
\* encoding of the character itself
RECURSIVE ForwardRun(_, _, _, _)
ForwardRun(w, s, i, chars) ==
    IF i > Len(s) THEN [w |-> w, chars |-> chars]
    ELSE LET r == write_step(w, s[i])
         IN ForwardRun(r.w, s, i + 1,
                       IF Appended(w, r.w) = encode_utf8(s[i])
                           THEN Append(chars, s[i]) ELSE chars)

Forwarded(s) == ForwardRun(Writer_new(FALSE, 0), s, 1, <<>>)

\* the Viserator has nothing more to yield
Exhausted == vis_next(vis).status = "None"

\* the text was written to the Writer, iterated to its end and measured
Scanned ==
    /\ StyledText
    /\ input = vis.input
    /\ Exhausted
    /\ ret.op = "Buffer::visible_len"

\* C32: the escape classification is the same in every component: the
\* characters ansi::Writer::write_str forwards to the sink at once, outside
\* any span, are the characters the Viserator yields over the same input,
\* and their UTF-8 lengths add up to Buffer::visible_len of that input.
C32_OneClassification ==
    Scanned =>
        /\ Forwarded(input).w = aw
        /\ Forwarded(input).chars = yielded
        /\ ret.status = "Ok"
        /\ SumLen(Forwarded(input).chars) = ret.val

\* a text with a closed span, a visible character and a span left open at
\* its end, scanned by all three
C32_Witness ==
    /\ Scanned
    /\ yielded # <<>>
    /\ ClosedSpans(input) # <<>>
    /\ SpanOpen(input)
    /\ aw.writer # as_bytes(yielded)

(***************************************************************************)
(* The cached style and the dirty flag                                     *)
(***************************************************************************)
\* C33: in every reachable state of ansi::Writer, under any sequence of
\* write_str, reset_ansi and restore_ansi, a non-empty last_sequence()
\* implies that the dirty flag is set, and a reset_ansi() made with a cached
\* style emits the reset sequence.
C33_CachedStyleIsDirty ==
    /\ last_sequence(aw) # <<>> => aw.seq_changed
    /\ (ret.op = "reset_ansi" /\ last_sequence(aw) # <<>>) =>
           emitted = RESET_SEQ

\* reset_ansi was called a second time with a style cached, and emitted
\* the reset sequence again
C33_Witness ==
    /\ ret.op = "reset_ansi"
    /\ last_sequence(aw) # <<>>
    /\ emitted = RESET_SEQ
    /\ nctl >= 2

(***************************************************************************)
(* Buffer::push_str and Buffer::push_char                                  *)
(***************************************************************************)
\* C34: starting from an empty Buffer, after any sequence of push_str and
\* push_char calls the bytes of the buffer are the UTF-8 encodings of the
\* pushed items one after the other, push_char(c) having appended
\* len_utf8(c) bytes, and to_str() succeeds and returns the pushed text.
C34_PushPreservesText ==
    nctl = 0 =>
        /\ buffer = as_bytes(input)
        /\ ret.op = "Buffer::to_str" => (ret.status = "Ok" /\ ret.val = input)

(***************************************************************************)
(* What dedent may delete                                                  *)
(***************************************************************************)
\* a is b with some of its elements deleted
RECURSIVE IsSubSeq(_, _)
IsSubSeq(a, b) ==
    IF a = <<>> THEN TRUE
    ELSE IF b = <<>> THEN FALSE
    ELSE IF Head(a) = Head(b) THEN IsSubSeq(Tail(a), Tail(b))
    ELSE IsSubSeq(a, Tail(b))

\* line out is line in with some of its leading spaces and tabs deleted
LeadingTrimmed(out, in) ==
    LET n == Leading(in)
        kept == Len(out) - (Len(in) - n)
    IN /\ kept >= 0
       /\ SubSeq(out, kept + 1, Len(out)) = SubSeq(in, n + 1, Len(in))
       /\ IsSubSeq(SubSeq(out, 1, kept), SubSeq(in, 1, n))

\* C35: the output of dedent_str is the input with some spaces and tabs
\* deleted, each of them before the first non-whitespace character of its
\* line; whitespace that follows a non-whitespace character is never
\* removed.
C35_OnlyLeadingRemoved ==
    ret.op = "dedent_str" =>
        /\ ret.status = "Ok"
        /\ Len(LinesOf(ret.val)) = Len(LinesOf(ret.arg))
        /\ \A i \in 1..Len(LinesOf(ret.arg)) :
               i <= Len(LinesOf(ret.val)) =>
                   LeadingTrimmed(LinesOf(ret.val)[i], LinesOf(ret.arg)[i])

(***************************************************************************)
(* indent_str on every input                                               *)
(***************************************************************************)
\* C36: indent_str returns a String for every input and every options
\* without panicking, the empty input included.
C36_IndentStrTotal == ret.op = "indent_str" => ret.status = "Ok"

(***************************************************************************)
(* close() after close()                                                   *)
(***************************************************************************)
\* the last call closed the padding Writer: close, or pad_string, which
\* ends with one
JustClosedPad == ret.op \in {"padding::close", "padding::pad_string"}

\* C37: close() on the padding Writer is idempotent: a second close() with
\* no write in between emits no further bytes to the style-tracking writer,
\* leaves the column counter at 0 and returns the same result.
C37_CloseIdempotent ==
    [][(JustClosedPad /\ ret.status = "Ok" /\ ret'.op = "padding::close") =>
          /\ emitted' = <<>>
          /\ pw'.ansi_writer = pw.ansi_writer
          /\ pw'.line_len = 0
          /\ pw.line_len = 0
          /\ ret'.status = "Ok"]_vars

\* a close that emitted nothing, made after the close that padded the
\* unfinished line: the sink still ends with that padding
C37_Witness ==
    /\ ret.op = "padding::close"
    /\ nctl >= 2
    /\ emitted = <<>>
    /\ ~SpanOpen(input)
    /\ pw.ansi_writer.writer # <<>>
    /\ pw.ansi_writer.writer[Len(pw.ansi_writer.writer)] = 32
    /\ pw.line_len = 0

(***************************************************************************)
(* The column after the last newline                                       *)
(***************************************************************************)
\* the position of the last newline of s, 0 when it has none
LastNewline(s) ==
    IF \A i \in 1..Len(s) : s[i] # 10 THEN 0
    ELSE CHOOSE i \in 1..Len(s) :
             s[i] = 10 /\ \A j \in (i + 1)..Len(s) : s[j] # 10

\* the position of the last newline of s read outside an escape span
LastShownNewline(s) ==
    LET shown == {i \in 1..Len(s) :
                     s[i] = 10 /\ ~SpanOpen(SubSeq(s, 1, i - 1))}
    IN IF shown = {} THEN 0
       ELSE CHOOSE i \in shown : \A j \in shown : j <= i

After(s, n) == SubSeq(s, n + 1, Len(s))

\* C38 as stated: for every input s, visible_width(s) is the visible_width
\* of what follows the last newline of s, also when an escape span is open
\* at that newline.
C38_ColumnSinceLastNewline ==
    ret.op = "visible_width" =>
        ret.val = visible_width(After(ret.arg, LastNewline(ret.arg)))

\* C38, amended: visible_width(s) is the visible_width of what follows the
\* last newline of s that is read outside an escape span; a newline inside
\* an unterminated span is part of the span and resets nothing.
C38_ColumnSinceShownNewline ==
    ret.op = "visible_width" =>
        /\ ret.val = visible_width(After(ret.arg, LastShownNewline(ret.arg)))
        /\ ret.val = Column(After(ret.arg, LastShownNewline(ret.arg)))

\* a newline outside any span, then text, then a newline inside a span
C38_Witness ==
    /\ ret.op = "visible_width"
    /\ LastShownNewline(ret.arg) > 0
    /\ LastShownNewline(ret.arg) < LastNewline(ret.arg)
    /\ ret.val > 0
    /\ ret.val # visible_width(After(ret.arg, LastNewline(ret.arg)))

====
